---------------------------- MODULE Spec2Model ----------------------------
(***************************************************************************)
(* The Chief's Log: the session and sequencing engine of src/App.tsx and   *)
(* the shuffle of src/unnamed/part_001 (utils/entropy).                    *)
(*                                                                         *)
(* The React component is a state machine.  Its state is the useState      *)
(* cells of App.  One step is either a handler called by the rendering     *)
(* layer (the handler runs to completion and React commits the new state)  *)
(* or the flush of the passive effects that the commit scheduled.  React   *)
(* flushes pending passive effects before it dispatches the next event,    *)
(* so while effectPending holds no handler is enabled: the only possible   *)
(* step is RunEffects.                                                     *)
(*                                                                         *)
(* A nullable cell (T | null) is the empty sequence or a one-element       *)
(* sequence holding the value.                                             *)
(***************************************************************************)
EXTENDS Integers, Sequences, FiniteSets, TLC

(***************************************************************************)
(* Program constants, scaled down so that the state space is finite and    *)
(* small.  The source values are 300, 100 and 65 (App.tsx:9-11), 10 for    *)
(* the history (App.tsx:187) and 50 for the leaderboard (App.tsx:165).     *)
(***************************************************************************)
TOTAL_QUESTIONS_PER_SECTION == 3
EXAM_LENGTH == 2
PASS_MARK == 1
HistoryCap == 2
LeaderboardCap == 1

(***************************************************************************)
(* Bounds of the model.                                                    *)
(***************************************************************************)
\* crypto.getRandomValues yields a value in 0..RandMax in App (a Uint32 in
\* the source)
RandMax == 0
\* the practice score is capped at MaxScore
MaxScore == 1
\* an exam's correctCount is capped at EXAM_LENGTH + MaxExtraCorrect
MaxExtraCorrect == 0
\* ShuffleSpec: the longest sequence asked for, and the largest random value
MaxShuffleLen == 4
ShuffleRandMax == 3
\* LedgerSpec: the number of appends, the largest cap, the number of
\* different entries
MaxAppends == 4
MaxLedgerCap == 3
NumLedgerEntries == 3

\* Paper (types.ts) has six members, App.tsx:30-35; the model keeps two.
Papers == {"P2A1", "P2A2"}
InitialPaper == "P2A1"
\* the option keys of a Question
OptionKeys == {"A", "B"}

VARIABLES
  activePaper,        \* App.tsx:16
  appMode,            \* App.tsx:17  "training" | "exam" | "scoreboard"
  score,              \* App.tsx:18
  history,            \* App.tsx:19  newest first
  highScores,         \* App.tsx:20  newest first
  examSequences,      \* App.tsx:26  Paper -> permutation
  sequencePositions,  \* App.tsx:41  Paper -> cursor
  examState,          \* App.tsx:55  nullable
  currentQuestion,    \* App.tsx:62  nullable
  selectedOption,     \* App.tsx:63  nullable
  feedback,           \* App.tsx:64  nullable
  chiefAnalysis,      \* App.tsx:65  nullable
  aiLoading,          \* App.tsx:68
  aiRequest,          \* the getChiefAnalysis call in flight (App.tsx:201), nullable
  localStorage,       \* the keys App reads and writes: key -> nullable string
  effectPending,      \* the question-loading effect (App.tsx:103) is scheduled
  lastSelect,         \* observation: "none", or how the last handler, a
                      \* handleOptionSelect, found its guard: "graded" | "ignored"
  run,                \* observation: progress of a startExam, (select, next)* run
  renderError,        \* a useState initialiser threw (App.tsx:19, 20, 28):
                      \* the first render failed and App is not mounted
  shLen, shRand, shResult,     \* ShuffleSpec: length, random values, output
  lgCap, lgLog, lgLedger       \* LedgerSpec: cap, all appended entries, ledger

appVars == <<activePaper, appMode, score, history, highScores, examSequences,
             sequencePositions, examState, currentQuestion, selectedOption,
             feedback, chiefAnalysis, aiLoading, aiRequest, localStorage,
             effectPending, lastSelect, run, renderError>>
shVars == <<shLen, shRand, shResult>>
lgVars == <<lgCap, lgLog, lgLedger>>
vars == <<appVars, shVars, lgVars>>

Null == <<>>
Some(x) == <<x>>
Val(cell) == cell[1]

-----------------------------------------------------------------------------
(***************************************************************************)
(* utils/entropy: secureShuffle and generateSecureSequence.                *)
(***************************************************************************)

\* a swap that loses result[i]: result[i] = result[j]; result[j] = result[i]
SwapOverwrite(result, i, j) ==
  [result EXCEPT ![i + 1] = result[j + 1]]

\* [result[i], result[j]] = [result[j], result[i]], i and j counted from 0
Swap(result, i, j) ==
  [result EXCEPT ![i + 1] = result[j + 1], ![j + 1] = result[i + 1]]

\* the loop of secureShuffle from index i down to 1; rand[i] is the value
\* getRandomValues returns in the iteration for i
RECURSIVE ShuffleLoop(_, _, _)
ShuffleLoop(result, i, rand) ==
  IF i > 0
  THEN LET j == rand[i] % (i + 1)
       IN  ShuffleLoop(Swap(result, i, j), i - 1, rand)
  ELSE result

\* the loop started one index short of the end
secureShuffleSkippingLast(array, rand) == ShuffleLoop(array, Len(array) - 2, rand)

secureShuffle(array, rand) == ShuffleLoop(array, Len(array) - 1, rand)

\* the identity sequence counted from 0: (_, i) => i
generateSecureSequenceFromZero(length, rand) ==
  secureShuffle([i \in 1..length |-> i - 1], rand)

\* Array.from({ length }, (_, i) => i + 1), shuffled
generateSecureSequence(length, rand) ==
  secureShuffle([i \in 1..length |-> i], rand)

\* the random values one shuffle of an array of length n consumes
Draws(n, max) == [1..(n - 1) -> 0..max]

-----------------------------------------------------------------------------
(***************************************************************************)
(* The ledgers: [entry, ...prev].slice(0, cap).                            *)
(***************************************************************************)
Slice(s, n) == SubSeq(s, 1, IF Len(s) < n THEN Len(s) ELSE n)

\* the ledger without its truncation: [entry, ...prev]
LedgerAppendNoSlice(prev, entry, cap) == <<entry>> \o prev

\* the entry pushed at the tail: [...prev, entry].slice(0, cap)
LedgerAppendAtTail(prev, entry, cap) == Slice(prev \o <<entry>>, cap)

LedgerAppend(prev, entry, cap) == Slice(<<entry>> \o prev, cap)


-----------------------------------------------------------------------------
(***************************************************************************)
(* utils/questionFactory is not among the source files.  The resolver is   *)
(* modelled from its contract: a pure function of (paper, pool index).     *)
(* The model keeps the two fields the session engine reads: the id and     *)
(* the correct option key.                                                 *)
(***************************************************************************)
generateQuestionFromEngine(paper, actualIndex) ==
  [id         |-> <<paper, actualIndex>>,
   correctKey |-> IF actualIndex % 2 = 1 THEN "A" ELSE "B"]

-----------------------------------------------------------------------------
(***************************************************************************)
(* App.tsx                                                                 *)
(***************************************************************************)

(***************************************************************************)
(* localStorage.  A key holds a string or is absent (getItem returns null: *)
(* Null here).  A decimal string is the sequence of its digits.  The JSON  *)
(* text of a value is a record holding the value: the values App stores    *)
(* are arrays and plain objects of finite numbers, strings and booleans,   *)
(* which JSON.parse(JSON.stringify(v)) rebuilds structurally equal.  A     *)
(* text that is not JSON is a record without that field: JSON.parse throws *)
(* a SyntaxError on it.                                                    *)
(***************************************************************************)
EmptyStorage ==
  [chief_score |-> Null, chief_history |-> Null, chief_high_scores |-> Null,
   chief_mode |-> Null, chief_positions |-> Null, chief_sequences |-> Null]

\* n.toString() of a natural number
RECURSIVE NumberToString(_)
NumberToString(n) ==
  IF n < 10 THEN <<n>> ELSE NumberToString(n \div 10) \o <<n % 10>>

\* Number(text) of a string of digits; Number("") is 0
RECURSIVE StringToNumber(_)
StringToNumber(text) ==
  IF text = <<>>
  THEN 0
  ELSE 10 * StringToNumber(SubSeq(text, 1, Len(text) - 1)) + text[Len(text)]

JSONStringify(value) == [json |-> value]
JSONParse(text) == text.json
JSONParseThrows(text) == "json" \notin DOMAIN text

\* the persistence effect without its write of chief_positions
PersistenceEffectWithoutPositions ==
  localStorage' = [localStorage EXCEPT
    !.chief_score       = Some(NumberToString(score')),
    !.chief_history     = Some(JSONStringify(history')),
    !.chief_high_scores = Some(JSONStringify(highScores')),
    !.chief_mode        = Some(appMode')]

\* the persistence effect (App.tsx:72-79), run on the state being committed;
\* chief_theme is not modelled
PersistenceEffect ==
  localStorage' = [localStorage EXCEPT
    !.chief_score       = Some(NumberToString(score')),
    !.chief_history     = Some(JSONStringify(history')),
    !.chief_high_scores = Some(JSONStringify(highScores')),
    !.chief_mode        = Some(appMode'),
    !.chief_positions   = Some(JSONStringify(sequencePositions'))]

\* the useState initialisers (App.tsx:17-53), each applied to the value
\* getItem returns for its key
InitialMode(saved) == IF saved # Null THEN Val(saved) ELSE "training"

\* Number(null) is 0, and Number(...) || 0 turns 0 and NaN into 0
InitialScore(saved) ==
  LET n == IF saved = Null THEN 0 ELSE StringToNumber(Val(saved))
  IN  IF n # 0 THEN n ELSE 0

InitialLedger(saved) ==
  JSONParse(IF saved # Null THEN Val(saved) ELSE JSONStringify(<<>>))

\* the initialisers of history, highScores and examSequences call JSON.parse
\* outside any try (App.tsx:19, 20, 28): its SyntaxError leaves the render
InitialiserThrows(saved) == saved # Null /\ JSONParseThrows(Val(saved))

defaultPositions == [p \in Papers |-> 0]

\* App.tsx:41-53: the parse is inside a try whose catch returns the
\* defaults; what parses is returned as it is
InitialPositions(saved) ==
  IF saved = Null \/ JSONParseThrows(Val(saved))
  THEN defaultPositions
  ELSE JSONParse(Val(saved))

\* the sequences of the initialiser: the saved ones, or new ones
\* generated with the random values rand
InitialSequences(saved, rand) ==
  IF saved # Null
  THEN JSONParse(Val(saved))
  ELSE [p \in Papers |->
          generateSecureSequence(TOTAL_QUESTIONS_PER_SECTION, rand[p])]

\* chief_sequences after the initialiser: written when they were generated
SequencesStored(saved, sequences) ==
  IF saved # Null THEN saved ELSE Some(JSONStringify(sequences))

\* the first render of App throws
StartupThrows(stored) ==
  \/ InitialiserThrows(stored.chief_history)
  \/ InitialiserThrows(stored.chief_high_scores)
  \/ InitialiserThrows(stored.chief_sequences)

\* the cells the initialisers fill (App.tsx:16-53) when App is rendered for
\* the first time over the storage stored, rand being the random values of
\* the sequences it may generate.  When an initialiser throws, nothing is
\* mounted and nothing was written: the cells then hold their defaults and
\* no step reads them.
StartupState(stored, rand) ==
  IF StartupThrows(stored)
  THEN [renderError       |-> TRUE,
        appMode           |-> "training",
        score             |-> 0,
        history           |-> <<>>,
        highScores        |-> <<>>,
        examSequences     |-> [p \in Papers |-> <<>>],
        sequencePositions |-> defaultPositions,
        localStorage      |-> stored,
        effectPending     |-> FALSE]
  ELSE LET sequences == InitialSequences(stored.chief_sequences, rand)
       IN  [renderError       |-> FALSE,
            appMode           |-> InitialMode(stored.chief_mode),
            score             |-> InitialScore(stored.chief_score),
            history           |-> InitialLedger(stored.chief_history),
            highScores        |-> InitialLedger(stored.chief_high_scores),
            examSequences     |-> sequences,
            sequencePositions |-> InitialPositions(stored.chief_positions),
            localStorage      |->
              [stored EXCEPT !.chief_sequences =
                 SequencesStored(stored.chief_sequences, sequences)],
            effectPending     |-> TRUE]

\* the position clamped to the sequence in place of wrapped
LoadedQuestionClamped(paper, position) ==
  LET sequence    == examSequences[paper]
      clamped     == IF position < TOTAL_QUESTIONS_PER_SECTION
                     THEN position ELSE TOTAL_QUESTIONS_PER_SECTION - 1
      actualIndex == sequence[clamped + 1]
  IN  generateQuestionFromEngine(paper, actualIndex)

\* the Question loadQuestion(paper, position) resolves (App.tsx:96-98);
\* sequence[k] of the source is sequence[k + 1] here
LoadedQuestion(paper, position) ==
  LET sequence    == examSequences[paper]
      actualIndex == sequence[(position % TOTAL_QUESTIONS_PER_SECTION) + 1]
  IN  generateQuestionFromEngine(paper, actualIndex)

\* loadQuestion: clears feedback, analysis and selection, sets the question
loadQuestion(paper, position) ==
  /\ feedback' = Null
  /\ chiefAnalysis' = Null
  /\ selectedOption' = Null
  /\ currentQuestion' = Some(LoadedQuestion(paper, position))

\* the guard without its test of feedback
SelectIgnoredNoFeedbackTest == currentQuestion = Null

\* the guard of handleOptionSelect (App.tsx:170)
SelectIgnored == feedback # Null \/ currentQuestion = Null

\* the comparison inverted
GradeInverted(key, question) == key # question.correctKey

\* const isCorrect = key === currentQuestion.correctKey (App.tsx:173)
Grade(key, question) == key = question.correctKey

\* the test without the mode
InExamAnyMode == examState # Null

\* the branch of nextQuestion and handleOptionSelect that works on the exam
InExam == appMode = "exam" /\ examState # Null

\* the test one question early, and one question late
LastExamQuestionEarly(exam) == exam.currentIndex + 1 >= EXAM_LENGTH - 1
LastExamQuestionLate(exam) == exam.currentIndex + 1 > EXAM_LENGTH

\* examState.currentIndex + 1 >= EXAM_LENGTH (App.tsx:138)
LastExamQuestion(exam) == exam.currentIndex + 1 >= EXAM_LENGTH

\* the pass mark excluded
PassedStrict(finalScore) == finalScore > PASS_MARK

\* const passed = finalScore >= PASS_MARK (App.tsx:154)
Passed(finalScore) == finalScore >= PASS_MARK

\* the ExamRecord of finishExam; its id (crypto.randomUUID) and timestamp
\* (Date.now) are values of the environment that nothing reads
ExamRecordOf(exam) ==
  [paper  |-> activePaper,
   score  |-> exam.correctCount,
   total  |-> EXAM_LENGTH,
   passed |-> Passed(exam.correctCount)]

\* the entry naming the cursor in place of the question
HistoryEntryOfPosition(question, isCorrect) ==
  [questionId |-> <<activePaper, sequencePositions[activePaper]>>,
   paper |-> activePaper, isCorrect |-> isCorrect]

\* the HistoryEntry of handleOptionSelect, without its topic and timestamp
HistoryEntryOf(question, isCorrect) ==
  [questionId |-> question.id, paper |-> activePaper, isCorrect |-> isCorrect]

\* the increment without its wrap
AdvanceNoWrap(position) == position + 1

\* the wrap one position early
AdvanceWrapEarly(position) == (position + 1) % (TOTAL_QUESTIONS_PER_SECTION - 1)

\* (prev[activePaper] + 1) % TOTAL_QUESTIONS_PER_SECTION (App.tsx:146)
Advance(position) == (position + 1) % TOTAL_QUESTIONS_PER_SECTION

\* the cursor read for the wrong paper
PracticePositionOfInitialPaper == sequencePositions[InitialPaper]

\* sequencePositions[activePaper] ?? 0 (App.tsx:109); every paper has a cursor
PracticePosition == sequencePositions[activePaper]

\* App is mounted, the main view is rendered (App.tsx:221 returns the
\* scoreboard otherwise) and no passive effect is waiting to be flushed
HandlersEnabled == ~renderError /\ ~effectPending /\ appMode # "scoreboard"

(***************************************************************************)
(* Every commit that changes score, history, highScores, appMode or        *)
(* sequencePositions schedules the persistence effect, which is declared   *)
(* first and runs first in the flush that follows, before anything can     *)
(* read localStorage.  A handler's step ends with that write; the question *)
(* the same flush loads is the step RunEffects.                            *)
(***************************************************************************)

(***************************************************************************)
(* Observations.  lastSelect and run are not state of the program: they    *)
(* record what the rendering layer has called, so that properties of an    *)
(* operation can be stated about the state it leaves.                      *)
(***************************************************************************)
\* run counts the operations of a startExam(), (selectOption, next())* run:
\* step operations done so far, correct of the selections made were right,
\* base is the leaderboard startExam found.  Any other call ends the run.
RunAfterSelect(key) ==
  IF /\ run # Null
     /\ Val(run).step % 2 = 0
     /\ Val(run).step < 2 * EXAM_LENGTH
     /\ currentQuestion # Null
  THEN Some([Val(run) EXCEPT
               !.step = @ + 1,
               !.correct = @ + (IF key = Val(currentQuestion).correctKey
                                THEN 1 ELSE 0)])
  ELSE Null

RunAfterNext ==
  IF run # Null /\ Val(run).step % 2 = 1
  THEN Some([Val(run) EXCEPT !.step = @ + 1])
  ELSE Null

-----------------------------------------------------------------------------
\* the new Session merged into the previous one: its count is kept
FreshSessionKeepingCount(indices) ==
  [currentIndex    |-> 0,
   correctCount    |-> IF examState # Null THEN Val(examState).correctCount ELSE 0,
   questionIndices |-> indices,
   isFinished      |-> FALSE]

\* the object startExam passes to setExamState (App.tsx:115-120)
FreshSession(indices) ==
  [currentIndex    |-> 0,
   correctCount    |-> 0,
   questionIndices |-> indices,
   isFinished      |-> FALSE]

\* startExam (App.tsx:113-123)
StartExam ==
  /\ HandlersEnabled
  /\ \E rand \in Draws(TOTAL_QUESTIONS_PER_SECTION, RandMax) :
       LET indices == Slice(generateSecureSequence(TOTAL_QUESTIONS_PER_SECTION, rand),
                            EXAM_LENGTH)
       IN  examState' = Some(FreshSession(indices))
  /\ appMode' = "exam"
  /\ effectPending' = TRUE
  /\ lastSelect' = "none"
  /\ run' = Some([step |-> 0, correct |-> 0, base |-> highScores])
  /\ UNCHANGED <<activePaper, score, history, highScores, examSequences,
                 sequencePositions, currentQuestion, selectedOption, feedback,
                 chiefAnalysis, aiLoading, aiRequest,
                 renderError, shVars, lgVars>>
  /\ PersistenceEffect

\* the map built without the previous cursors
ResetAllPositions(positions, paper) == [p \in Papers |-> 0]

\* { ...prev, [activePaper]: 0 } (App.tsx:127-130)
ResetPositions(positions, paper) == [positions EXCEPT ![paper] = 0]

\* resetActivePractice, the learner confirming (App.tsx:125-134)
ResetActivePractice ==
  /\ HandlersEnabled
  /\ sequencePositions' = ResetPositions(sequencePositions, activePaper)
  /\ appMode' = "training"
  /\ effectPending' = (sequencePositions[activePaper] # 0 \/ appMode # "training")
  /\ lastSelect' = "none"
  /\ run' = Null
  /\ UNCHANGED <<activePaper, score, history, highScores, examSequences,
                 examState, currentQuestion, selectedOption, feedback,
                 chiefAnalysis, aiLoading, aiRequest,
                 renderError, shVars, lgVars>>
  /\ PersistenceEffect

\* finishExam (App.tsx:151-167), called by nextQuestion
finishExam ==
  /\ highScores' = LedgerAppend(highScores, ExamRecordOf(Val(examState)),
                                LeaderboardCap)
  /\ examState' = Some([Val(examState) EXCEPT !.isFinished = TRUE])

\* the object built without the previous fields: the count is lost
AdvanceExamLosingCount(exam) ==
  [exam EXCEPT !.currentIndex = @ + 1, !.correctCount = 0]

\* { ...prev, currentIndex: prev.currentIndex + 1 } (App.tsx:141)
AdvanceExam(exam) == [exam EXCEPT !.currentIndex = @ + 1]

\* nextQuestion (App.tsx:136-149)
NextQuestion ==
  /\ HandlersEnabled
  /\ IF InExam
     THEN /\ IF LastExamQuestion(Val(examState))
             THEN finishExam
             ELSE /\ examState' = Some(AdvanceExam(Val(examState)))
                  /\ UNCHANGED highScores
          /\ effectPending' = TRUE
          /\ UNCHANGED sequencePositions
     ELSE /\ sequencePositions' =
               [sequencePositions EXCEPT ![activePaper] = Advance(@)]
          /\ effectPending' =
               (Advance(sequencePositions[activePaper]) # sequencePositions[activePaper])
          /\ UNCHANGED <<examState, highScores>>
  /\ lastSelect' = "none"
  /\ run' = RunAfterNext
  /\ UNCHANGED <<activePaper, appMode, score, history, examSequences,
                 currentQuestion, selectedOption, feedback,
                 chiefAnalysis, aiLoading, aiRequest,
                 renderError, shVars, lgVars>>
  /\ PersistenceEffect

\* the score raised whatever the grading
ScoreAfterUngraded(s, isCorrect) == s + 1

\* setScore(s => isCorrect ? s + 1 : s) (App.tsx:178)
ScoreAfter(s, isCorrect) == IF isCorrect THEN s + 1 ELSE s

\* handleOptionSelect (App.tsx:169-195)
HandleOptionSelect(key) ==
  /\ HandlersEnabled
  /\ lastSelect' = IF feedback # Null \/ currentQuestion = Null
                   THEN "ignored" ELSE "graded"
  /\ run' = RunAfterSelect(key)
  /\ IF SelectIgnored
     THEN UNCHANGED <<selectedOption, examState, score, history, feedback,
                      effectPending>>
     ELSE LET question  == Val(currentQuestion)
              isCorrect == Grade(key, question)
          IN  /\ selectedOption' = Some(key)
              /\ IF InExam
                 THEN /\ isCorrect =>
                           Val(examState).correctCount < EXAM_LENGTH + MaxExtraCorrect
                      /\ examState' = Some([Val(examState) EXCEPT
                           !.correctCount = @ + (IF isCorrect THEN 1 ELSE 0)])
                      /\ effectPending' = TRUE
                      /\ UNCHANGED score
                 ELSE /\ isCorrect => score < MaxScore
                      /\ score' = ScoreAfter(score, isCorrect)
                      /\ UNCHANGED <<examState, effectPending>>
              /\ history' = LedgerAppend(history, HistoryEntryOf(question, isCorrect),
                                         HistoryCap)
              /\ feedback' = Some([isCorrect |-> isCorrect])
  /\ UNCHANGED <<activePaper, appMode, highScores, examSequences,
                 sequencePositions, currentQuestion,
                 chiefAnalysis, aiLoading, aiRequest,
                 renderError, shVars, lgVars>>
  /\ PersistenceEffect

\* the Practice Room button (App.tsx:290)
PracticeRoom ==
  /\ HandlersEnabled
  /\ appMode' = "training"
  /\ effectPending' = (appMode # "training")
  /\ lastSelect' = "none"
  /\ run' = Null
  /\ UNCHANGED <<activePaper, score, history, highScores, examSequences,
                 sequencePositions, examState, currentQuestion, selectedOption,
                 feedback, chiefAnalysis, aiLoading, aiRequest,
                 renderError, shVars, lgVars>>
  /\ PersistenceEffect

\* the Scoreboard button (App.tsx:294)
OpenScoreboard ==
  /\ HandlersEnabled
  /\ appMode' = "scoreboard"
  /\ effectPending' = TRUE
  /\ lastSelect' = "none"
  /\ run' = Null
  /\ UNCHANGED <<activePaper, score, history, highScores, examSequences,
                 sequencePositions, examState, currentQuestion, selectedOption,
                 feedback, chiefAnalysis, aiLoading, aiRequest,
                 renderError, shVars, lgVars>>
  /\ PersistenceEffect

\* the Close button of the scoreboard view (App.tsx:226)
CloseScoreboard ==
  /\ ~effectPending
  /\ appMode = "scoreboard"
  /\ appMode' = "training"
  /\ effectPending' = TRUE
  /\ lastSelect' = "none"
  /\ run' = Null
  /\ UNCHANGED <<activePaper, score, history, highScores, examSequences,
                 sequencePositions, examState, currentQuestion, selectedOption,
                 feedback, chiefAnalysis, aiLoading, aiRequest,
                 renderError, shVars, lgVars>>
  /\ PersistenceEffect

\* a paper button (App.tsx:305-313)
SelectPaper(paper) ==
  /\ HandlersEnabled
  /\ activePaper' = paper
  /\ appMode' = "training"
  /\ effectPending' = (paper # activePaper \/ appMode # "training")
  /\ lastSelect' = "none"
  /\ run' = Null
  /\ UNCHANGED <<score, history, highScores, examSequences,
                 sequencePositions, examState, currentQuestion, selectedOption,
                 feedback, chiefAnalysis, aiLoading, aiRequest,
                 renderError, shVars, lgVars>>
  /\ PersistenceEffect

\* the flush of the passive effects: the persistence effect (App.tsx:72-79),
\* which after the mount writes its keys for the first time, and the
\* question-loading effect (App.tsx:103-111)
RunEffects ==
  /\ effectPending
  /\ effectPending' = FALSE
  /\ IF appMode = "exam"
     THEN IF examState # Null /\ ~Val(examState).isFinished
          THEN loadQuestion(activePaper,
                 Val(examState).questionIndices[Val(examState).currentIndex + 1])
          ELSE UNCHANGED <<feedback, chiefAnalysis, selectedOption, currentQuestion>>
     ELSE IF appMode = "training"
          THEN loadQuestion(activePaper, PracticePosition)
          ELSE UNCHANGED <<feedback, chiefAnalysis, selectedOption, currentQuestion>>
  /\ UNCHANGED <<activePaper, appMode, score, history, highScores, examSequences,
                 sequencePositions, examState, aiLoading, aiRequest,
                 lastSelect, run,
                 renderError, shVars, lgVars>>
  /\ PersistenceEffect

\* the page is reloaded: the useState initialisers (App.tsx:16-68) run again
\* and read localStorage
Restart ==
  /\ ~effectPending
  /\ \E rand \in [Papers -> Draws(TOTAL_QUESTIONS_PER_SECTION, RandMax)] :
       LET started == StartupState(localStorage, rand)
       IN  /\ renderError' = started.renderError
           /\ appMode' = started.appMode
           /\ score' = started.score
           /\ history' = started.history
           /\ highScores' = started.highScores
           /\ examSequences' = started.examSequences
           /\ sequencePositions' = started.sequencePositions
           /\ localStorage' = started.localStorage
           /\ effectPending' = started.effectPending
  /\ activePaper' = InitialPaper
  /\ examState' = Null
  /\ currentQuestion' = Null
  /\ selectedOption' = Null
  /\ feedback' = Null
  /\ chiefAnalysis' = Null
  /\ aiLoading' = FALSE
  /\ aiRequest' = Null
  /\ lastSelect' = "none"
  /\ run' = Null
  /\ UNCHANGED <<shVars, lgVars>>

\* consultTheChief (App.tsx:197-210) up to its await
ConsultTheChief ==
  /\ HandlersEnabled
  /\ IF currentQuestion = Null \/ selectedOption = Null \/ aiLoading
     THEN UNCHANGED <<aiLoading, aiRequest>>
     ELSE /\ aiLoading' = TRUE
          /\ aiRequest' = Some([question |-> Val(currentQuestion).id])
  /\ lastSelect' = "none"
  /\ run' = Null
  /\ UNCHANGED <<activePaper, appMode, score, history, highScores, examSequences,
                 sequencePositions, examState, currentQuestion, selectedOption,
                 feedback, chiefAnalysis, effectPending, localStorage,
                 renderError, shVars, lgVars>>

\* consultTheChief after its await: the promise of getChiefAnalysis settles.
\* The note is recorded by the question it was asked for.
ChiefAnalysisArrives ==
  /\ ~effectPending
  /\ aiRequest # Null
  /\ chiefAnalysis' = Some([requestedFor |-> Val(aiRequest).question])
  /\ aiLoading' = FALSE
  /\ aiRequest' = Null
  /\ UNCHANGED <<activePaper, appMode, score, history, highScores, examSequences,
                 sequencePositions, examState, currentQuestion, selectedOption,
                 feedback, effectPending, lastSelect, run, localStorage,
                 renderError, shVars, lgVars>>

\* the state of App after its first render over the storage stored
\* (App.tsx:16-68)
StartedFrom(stored) ==
  /\ \E rand \in [Papers -> Draws(TOTAL_QUESTIONS_PER_SECTION, RandMax)] :
       LET started == StartupState(stored, rand)
       IN  /\ renderError = started.renderError
           /\ appMode = started.appMode
           /\ score = started.score
           /\ history = started.history
           /\ highScores = started.highScores
           /\ examSequences = started.examSequences
           /\ sequencePositions = started.sequencePositions
           /\ localStorage = started.localStorage
           /\ effectPending = started.effectPending
  /\ activePaper = InitialPaper
  /\ examState = Null
  /\ currentQuestion = Null
  /\ selectedOption = Null
  /\ feedback = Null
  /\ chiefAnalysis = Null
  /\ aiLoading = FALSE
  /\ aiRequest = Null
  /\ lastSelect = "none"
  /\ run = Null

\* the state of App on its first start: localStorage is empty
AppInit == StartedFrom(EmptyStorage)

\* the variables of ShuffleSpec and LedgerSpec outside these specifications
ShuffleIdle == shLen = 0 /\ shRand = <<>> /\ shResult = Null
LedgerIdle == lgCap = 0 /\ lgLog = <<>> /\ lgLedger = <<>>

Init == AppInit /\ ShuffleIdle /\ LedgerIdle

Next ==
  \/ StartExam
  \/ ResetActivePractice
  \/ NextQuestion
  \/ \E key \in OptionKeys : HandleOptionSelect(key)
  \/ PracticeRoom
  \/ OpenScoreboard
  \/ CloseScoreboard
  \/ \E paper \in Papers : SelectPaper(paper)
  \/ RunEffects
  \/ Restart

Spec == Init /\ [][Next]_vars

-----------------------------------------------------------------------------
(***************************************************************************)
(* AdvisorySpec: practice with the advisory provider.  getChiefAnalysis is *)
(* awaited: the handler is suspended until the promise settles, and the    *)
(* learner may act in between.                                             *)
(***************************************************************************)
AdvisoryNext ==
  \/ NextQuestion
  \/ \E key \in OptionKeys : HandleOptionSelect(key)
  \/ \E paper \in Papers : SelectPaper(paper)
  \/ RunEffects
  \/ ConsultTheChief
  \/ ChiefAnalysisArrives

AdvisorySpec == Init /\ [][AdvisoryNext]_vars

-----------------------------------------------------------------------------
(***************************************************************************)
(* ShuffleSpec: generateSecureSequence(length) for every length in         *)
(* 1..MaxShuffleLen and every outcome of the random draws.                 *)
(***************************************************************************)
ShuffleInit ==
  /\ shLen \in 1..MaxShuffleLen
  /\ shRand \in Draws(shLen, ShuffleRandMax)
  /\ shResult = Null

Generate ==
  /\ shResult = Null
  /\ shResult' = Some(generateSecureSequence(shLen, shRand))
  /\ UNCHANGED <<shLen, shRand, appVars, lgVars>>

ShuffleSpecInit == AppInit /\ LedgerIdle /\ ShuffleInit

ShuffleNext == Generate

ShuffleSpec == ShuffleSpecInit /\ [][ShuffleNext]_vars

-----------------------------------------------------------------------------
(***************************************************************************)
(* LedgerSpec: a ledger with cap lgCap, empty at first, to which entries   *)
(* are appended the way setHistory and setHighScores append.               *)
(***************************************************************************)
LedgerEntries == 1..NumLedgerEntries

LedgerInit ==
  /\ lgCap \in 1..MaxLedgerCap
  /\ lgLog = <<>>
  /\ lgLedger = <<>>

AppendEntry(entry) ==
  /\ Len(lgLog) < MaxAppends
  /\ lgLedger' = LedgerAppend(lgLedger, entry, lgCap)
  /\ lgLog' = Append(lgLog, entry)
  /\ UNCHANGED <<lgCap, appVars, shVars>>

LedgerNext == \E entry \in LedgerEntries : AppendEntry(entry)

LedgerSpecInit == AppInit /\ ShuffleIdle /\ LedgerInit

LedgerSpec == LedgerSpecInit /\ [][LedgerNext]_vars


-----------------------------------------------------------------------------
(***************************************************************************)
(* Properties.                                                             *)
(***************************************************************************)
Min(a, b) == IF a < b THEN a ELSE b

\* a run startExam(), (selectOption, next())* has made EXAM_LENGTH rounds
RunComplete == run # Null /\ Val(run).step = 2 * EXAM_LENGTH

C2_Permutation ==
  shResult # Null =>
    LET s == Val(shResult)
    IN  /\ Len(s) = shLen
        /\ \A k \in 1..shLen : Cardinality({i \in 1..Len(s) : s[i] = k}) = 1

\* the longest sequence has been generated and is not the identity
C2_Witness ==
  /\ shResult # Null
  /\ shLen = MaxShuffleLen
  /\ \E i \in 1..shLen : Val(shResult)[i] # i

\* C3 (Spec).  Every paper's practice cursor is in 0..N-1.
C3_CursorInRange ==
  \A p \in Papers :
    sequencePositions[p] \in 0..(TOTAL_QUESTIONS_PER_SECTION - 1)

\* one cursor is at the last position, another paper's has moved too
C3_Witness ==
  \E p, q \in Papers :
    /\ p # q
    /\ sequencePositions[p] = TOTAL_QUESTIONS_PER_SECTION - 1
    /\ sequencePositions[q] = 1

\* C4 as claimed (Spec).  The position of a Session is in 0..L, and it is L
\* if and only if the Session is finished.
C4_PositionIsLengthIffFinished ==
  examState # Null =>
    /\ Val(examState).currentIndex \in 0..EXAM_LENGTH
    /\ (Val(examState).currentIndex = EXAM_LENGTH) <=> Val(examState).isFinished

\* C4 as amended (Spec).  The position of a Session is in 0..L-1, and a
\* finished Session is at position L-1.
C4_PositionBelowLength ==
  examState # Null =>
    /\ Val(examState).currentIndex \in 0..(EXAM_LENGTH - 1)
    /\ Val(examState).isFinished => Val(examState).currentIndex = EXAM_LENGTH - 1

\* a Session is finished
C4_Witness == examState # Null /\ Val(examState).isFinished

\* C5 (AdvisorySpec).  The analysis shown with a question was requested for
\* that question.
C5_AnalysisIsForCurrentQuestion ==
  (chiefAnalysis # Null /\ currentQuestion # Null) =>
    Val(chiefAnalysis).requestedFor = Val(currentQuestion).id

\* C6 (Spec).  The history holds at most HistoryCap entries and the
\* leaderboard at most LeaderboardCap records.
C6_LedgerBounds ==
  /\ Len(history) <= HistoryCap
  /\ Len(highScores) <= LeaderboardCap

\* both ledgers are full, after an exam that was finished on a full
\* leaderboard and an answer graded in practice before it
C6_Witness ==
  /\ RunComplete
  /\ Len(Val(run).base) = LeaderboardCap
  /\ Len(highScores) = LeaderboardCap
  /\ Len(history) = HistoryCap
  /\ score >= 1

\* C7 (LedgerSpec).  After k appends to an empty ledger with cap C the
\* ledger holds the min(k, C) entries appended last, newest first.
C7_LedgerIsFifo ==
  /\ Len(lgLedger) = Min(Len(lgLog), lgCap)
  /\ \A i \in 1..Len(lgLedger) : lgLedger[i] = lgLog[Len(lgLog) - i + 1]

\* two appends beyond a cap of at least two, the two newest entries differ
C7_Witness ==
  /\ lgCap >= 2
  /\ Len(lgLog) = lgCap + 2
  /\ lgLedger[1] # lgLedger[2]

\* C8 (Spec).  Every record of the leaderboard has passed = (score >=
\* PASS_MARK) and total = EXAM_LENGTH.
C8_RecordsConsistent ==
  \A i \in 1..Len(highScores) :
    /\ highScores[i].passed = (highScores[i].score >= PASS_MARK)
    /\ highScores[i].total = EXAM_LENGTH

\* a record with exactly the pass mark
C8_Witness ==
  \E i \in 1..Len(highScores) :
    highScores[i].score = PASS_MARK /\ highScores[i].passed

C10_SelectIsGuarded ==
  [][\A key \in OptionKeys :
       (HandleOptionSelect(key) /\ (feedback # Null \/ currentQuestion = Null)) =>
         UNCHANGED <<score, examState, history, feedback, selectedOption>>]_vars

\* an option was selected while feedback was shown
C10_Witness == lastSelect = "ignored" /\ feedback # Null

\* the question at the active paper's own cursor in its own permutation
QuestionAtCursor ==
  generateQuestionFromEngine(
    activePaper, examSequences[activePaper][sequencePositions[activePaper] + 1])

\* C11 (Spec).  A paper button pressed in practice changes no cursor and
\* makes the paper the active one; if the paper is another one the
\* question-loading effect is scheduled, and the step that follows a
\* scheduled effect in practice shows the question at the active paper's
\* own cursor in that paper's own permutation.
C11_TopicSwitchKeepsCursors ==
  [][/\ \A paper \in Papers :
          (SelectPaper(paper) /\ appMode = "training") =>
            /\ sequencePositions' = sequencePositions
            /\ activePaper' = paper
            /\ appMode' = "training"
            /\ ((paper # activePaper) => effectPending')
     /\ (effectPending /\ appMode = "training") =>
          /\ ~effectPending'
          /\ activePaper' = activePaper
          /\ currentQuestion' = Some(QuestionAtCursor')]_vars

\* the second paper is shown at its cursor 1 while the first paper, left
\* behind, keeps its cursor 2
C11_Witness ==
  /\ appMode = "training"
  /\ ~effectPending
  /\ activePaper # InitialPaper
  /\ sequencePositions[InitialPaper] = 2
  /\ sequencePositions[activePaper] = 1
  /\ currentQuestion = Some(QuestionAtCursor)
  /\ feedback = Null

\* C12 (Spec).  While the mode is exam, startExam, selectOption and next
\* change neither a practice cursor nor the practice score.
C12_ExamLeavesPracticeAlone ==
  [][(/\ appMode = "exam"
      /\ \/ StartExam
         \/ NextQuestion
         \/ \E key \in OptionKeys : HandleOptionSelect(key)) =>
       /\ sequencePositions' = sequencePositions
       /\ score' = score]_vars

\* s maps the positions 0..N-1 one-to-one onto the pool indices 1..N
IsPermutation(s) ==
  /\ Len(s) = TOTAL_QUESTIONS_PER_SECTION
  /\ \A k \in 1..TOTAL_QUESTIONS_PER_SECTION :
       Cardinality({i \in 1..Len(s) : s[i] = k}) = 1

RECURSIVE AdvanceTimes(_, _)
AdvanceTimes(position, n) ==
  IF n = 0 THEN position ELSE AdvanceTimes(Advance(position), n - 1)

\* C15 (Spec).  next() in practice sets the active paper's cursor to
\* (cursor + 1) mod N and leaves the other cursors alone; N such steps
\* from a cursor lead back to it, and fewer do not.
C15_AdvanceWraps ==
  [][(NextQuestion /\ appMode = "training") =>
       LET old == sequencePositions[activePaper]
       IN  /\ sequencePositions' =
                [sequencePositions EXCEPT ![activePaper] =
                   (old + 1) % TOTAL_QUESTIONS_PER_SECTION]
           /\ AdvanceTimes(old, TOTAL_QUESTIONS_PER_SECTION) = old
           /\ \A n \in 1..(TOTAL_QUESTIONS_PER_SECTION - 1) :
                AdvanceTimes(old, n) # old]_vars

\* N - 1 calls of next() have moved the cursor of the second paper to the
\* last position, whose question is answered: the call that follows is the
\* N-th, which wraps
C15_Witness ==
  /\ appMode = "training"
  /\ ~effectPending
  /\ activePaper # InitialPaper
  /\ sequencePositions[activePaper] = TOTAL_QUESTIONS_PER_SECTION - 1
  /\ AdvanceTimes(0, TOTAL_QUESTIONS_PER_SECTION - 1) = sequencePositions[activePaper]
  /\ currentQuestion = Some(QuestionAtCursor)
  /\ feedback # Null
  /\ examState = Null

\* C16 (Spec).  startExam, whatever the state it is called in, leaves a
\* Session at position 0 with correctCount 0, not finished, whose index
\* list has exactly L entries, pairwise distinct and all in 1..N; the mode
\* is exam and the leaderboard is unchanged.
C16_StartExamIsFresh ==
  [][StartExam =>
       /\ examState' # Null
       /\ LET session == Val(examState')
              indices == session.questionIndices
          IN  /\ session.currentIndex = 0
              /\ session.correctCount = 0
              /\ session.isFinished = FALSE
              /\ Len(indices) = EXAM_LENGTH
              /\ \A i \in 1..Len(indices) :
                   indices[i] \in 1..TOTAL_QUESTIONS_PER_SECTION
              /\ \A i, k \in 1..Len(indices) : indices[i] = indices[k] => i = k
       /\ appMode' = "exam"
       /\ highScores' = highScores]_vars

\* startExam has just been called on an active exam: the question still
\* shown is not the one at the practice cursor, its answer, graded last,
\* was correct and did not count for the practice score, and the Session
\* is new, with nothing on the leaderboard
C16_Witness ==
  /\ run # Null
  /\ Val(run).step = 0
  /\ effectPending
  /\ Val(examState).correctCount = 0
  /\ Val(examState).currentIndex = 0
  /\ currentQuestion # Null
  /\ Val(currentQuestion) # QuestionAtCursor
  /\ sequencePositions = defaultPositions
  /\ history # <<>>
  /\ history[1].questionId = Val(currentQuestion).id
  /\ history[1].isCorrect
  /\ score = 0
  /\ highScores = <<>>

\* C17 (Spec).  The steps that switch to practice or to the scoreboard
\* (Practice Room, a paper button, reset, Scoreboard, Close) leave the
\* leaderboard unchanged and do not enter the exam mode; outside the exam
\* mode no step changes the leaderboard; and a step that enters the exam
\* mode installs a new Session (position 0, correctCount 0, not finished),
\* so that the Session left behind is never the one a later record is
\* written for.
C17_AbandonedExamLeavesNoRecord ==
  [][/\ (\/ PracticeRoom
         \/ ResetActivePractice
         \/ OpenScoreboard
         \/ CloseScoreboard
         \/ \E paper \in Papers : SelectPaper(paper)) =>
          /\ highScores' = highScores
          /\ appMode' # "exam"
     /\ (appMode # "exam") => highScores' = highScores
     /\ (appMode # "exam" /\ appMode' = "exam") =>
          /\ examState' # Null
          /\ Val(examState').currentIndex = 0
          /\ Val(examState').correctCount = 0
          /\ ~Val(examState').isFinished]_vars

\* practice goes on (an answer is graded at cursor 1) after an exam was
\* left at its last position with a correct answer counted; the
\* leaderboard is empty
C17_Witness ==
  /\ appMode = "training"
  /\ ~effectPending
  /\ examState # Null
  /\ ~Val(examState).isFinished
  /\ Val(examState).currentIndex = EXAM_LENGTH - 1
  /\ Val(examState).correctCount >= 1
  /\ highScores = <<>>
  /\ sequencePositions[activePaper] = 1
  /\ lastSelect = "graded"
  /\ feedback # Null

\* C18 (Spec).  Between two operations the question shown in practice is
\* the resolver's question for the pool index at the active paper's cursor
\* in its permutation, and the question shown in an unfinished exam is the
\* resolver's question for the pool index at the Session's position in the
\* Session's own index list.
C18_QuestionIsAtCurrentIndex ==
  (~effectPending /\ currentQuestion # Null) =>
    /\ (appMode = "training") => currentQuestion = Some(QuestionAtCursor)
    /\ (appMode = "exam" /\ examState # Null /\ ~Val(examState).isFinished) =>
         currentQuestion =
           Some(generateQuestionFromEngine(
                  activePaper,
                  Val(examState).questionIndices[Val(examState).currentIndex + 1]))

\* C19 (Spec).  A selectOption(key) in practice that finds a question and
\* no feedback adds exactly 1 to the score if key is the correct key and 0
\* otherwise, and changes no cursor; a step that changes a cursor is a
\* next() or a reset.
C19_PracticeSelectScores ==
  [][/\ \A key \in OptionKeys :
          (/\ HandleOptionSelect(key)
           /\ appMode = "training"
           /\ feedback = Null
           /\ currentQuestion # Null) =>
            /\ score' - score =
                 (IF key = Val(currentQuestion).correctKey THEN 1 ELSE 0)
            /\ sequencePositions' = sequencePositions
     /\ (sequencePositions' # sequencePositions) =>
          (NextQuestion \/ ResetActivePractice)]_vars

\* a wrong answer graded in practice when the score was already 1: the
\* score is still 1, at cursor 2
C19_Witness ==
  /\ appMode = "training"
  /\ lastSelect = "graded"
  /\ feedback # Null
  /\ ~Val(feedback).isCorrect
  /\ score = 1
  /\ sequencePositions[activePaper] = 2
  /\ examState = Null

\* the mode is exam and the Session is not finished
ExamActive ==
  appMode = "exam" /\ examState # Null /\ ~Val(examState).isFinished

\* C20 (Spec).  In an active exam, next() at a position with position + 1
\* < L adds exactly 1 to the position, leaves correctCount, the index list,
\* the terminal flag and the leaderboard unchanged and schedules the
\* question-loading effect; next() with position + 1 = L sets the terminal
\* flag and leaves the position.  The step that follows a scheduled effect
\* in an active exam clears feedback and selection.
C20_ExamNextAdvancesByOne ==
  [][/\ (NextQuestion /\ ExamActive) =>
          LET old == Val(examState)
          IN  IF old.currentIndex + 1 < EXAM_LENGTH
              THEN /\ examState' =
                        Some([currentIndex    |-> old.currentIndex + 1,
                              correctCount    |-> old.correctCount,
                              questionIndices |-> old.questionIndices,
                              isFinished      |-> FALSE])
                   /\ highScores' = highScores
                   /\ effectPending'
              ELSE /\ Val(examState').isFinished
                   /\ Val(examState').currentIndex = old.currentIndex
     /\ (effectPending /\ ExamActive) =>
          /\ ~effectPending'
          /\ feedback' = Null
          /\ selectedOption' = Null]_vars

\* startExam, a correct selectOption and next() have acted: the Session is
\* at position 1 with correctCount 1, the next question is loaded and
\* neither feedback nor a selection is shown
C20_Witness ==
  /\ run # Null
  /\ Val(run).step = 2
  /\ ~effectPending
  /\ ExamActive
  /\ Val(examState).currentIndex = 1
  /\ Val(examState).correctCount = 1
  /\ feedback = Null
  /\ selectedOption = Null

-----------------------------------------------------------------------------
\* C21: every graded selectOption, in practice and in the exam alike, puts
\* exactly one HistoryEntry at the head of the history, holding the id of the
\* current question and the grading result shown as feedback (the oldest
\* entry leaves at the cap), and no other operation changes the history.
C21_HistoryIsTheGradedSelects ==
  [][ /\ \A key \in OptionKeys :
           (HandleOptionSelect(key) /\ ~SelectIgnored) =>
             /\ Len(history') = Min(Len(history) + 1, HistoryCap)
             /\ history'[1].questionId = Val(currentQuestion).id
             /\ history'[1].isCorrect = Val(feedback').isCorrect
             /\ SubSeq(history', 2, Len(history')) =
                  SubSeq(history, 1, Len(history') - 1)
      /\ (history' # history) =>
           (\E key \in OptionKeys : HandleOptionSelect(key) /\ ~SelectIgnored)
    ]_vars

\* an exam answer has just been graded and heads the history, above an
\* answer given in practice on the other paper
C21_Witness ==
  /\ lastSelect = "graded"
  /\ appMode = "exam"
  /\ examState # Null
  /\ feedback # Null
  /\ currentQuestion # Null
  /\ Len(history) = HistoryCap
  /\ history[1].questionId = Val(currentQuestion).id
  /\ history[1].isCorrect = Val(feedback).isCorrect
  /\ history[1].paper = activePaper
  /\ history[HistoryCap].paper # activePaper

\* C22: a confirmed resetTopic sets the cursor of the active topic to 0 and
\* leaves unchanged the permutation of every topic, the cursor of every other
\* topic, the practice score, the history and the leaderboard; every position
\* of every topic resolves to the same question after the reset as before.
C22_ResetOnlyRewindsTheActiveTopic ==
  [][ ResetActivePractice =>
        /\ sequencePositions'[activePaper] = 0
        /\ \A p \in Papers \ {activePaper} :
             sequencePositions'[p] = sequencePositions[p]
        /\ UNCHANGED <<activePaper, examSequences, score, history, highScores>>
        /\ \A p \in Papers : \A k \in 0..(TOTAL_QUESTIONS_PER_SECTION - 1) :
             LoadedQuestion(p, k)' = LoadedQuestion(p, k)
    ]_vars

\* the reset has been confirmed at the second position of a topic never
\* examined: its cursor is 0 while the second question is still shown, the
\* other topics stand at their last position, the score and history are kept
C22_Witness ==
  /\ effectPending
  /\ appMode = "training"
  /\ examState = Null
  /\ sequencePositions[activePaper] = 0
  /\ currentQuestion = Some(LoadedQuestion(activePaper, 1))
  /\ \A p \in Papers \ {activePaper} :
       sequencePositions[p] = TOTAL_QUESTIONS_PER_SECTION - 1
  /\ score = MaxScore
  /\ Len(history) = HistoryCap

-----------------------------------------------------------------------------
(***************************************************************************)
(* StartupSpec: App started over a localStorage it did not write itself    *)
(* (an older build, another script of the origin, a hand edit), and then   *)
(* used in practice.  A stored JSON value is absent, is not JSON, or, for  *)
(* chief_positions, is a cursor map whose values range up to the pool      *)
(* size, one past the last position.                                       *)
(***************************************************************************)
MalformedJSON == [malformed |-> TRUE]

StoredStorages ==
  { [chief_score       |-> sc,
     chief_history     |-> h,
     chief_high_scores |-> hs,
     chief_mode        |-> Null,
     chief_positions   |-> ps,
     chief_sequences   |-> sq] :
      sc \in {Null, Some(NumberToString(MaxScore))},
      h  \in {Null, Some(MalformedJSON)},
      hs \in {Null, Some(MalformedJSON)},
      ps \in {Null, Some(MalformedJSON)} \cup
             { Some(JSONStringify(m)) :
                 m \in [Papers -> 0..TOTAL_QUESTIONS_PER_SECTION] },
      sq \in {Null, Some(MalformedJSON)} }

StartupSpecInit ==
  /\ \E stored \in StoredStorages : StartedFrom(stored)
  /\ ShuffleIdle
  /\ LedgerIdle

StartupNext ==
  \/ RunEffects
  \/ NextQuestion
  \/ \E key \in OptionKeys : HandleOptionSelect(key)
  \/ \E paper \in Papers : SelectPaper(paper)

StartupSpec == StartupSpecInit /\ [][StartupNext]_vars

\* C23: on start-up with malformed persisted state (a stored value that does
\* not parse, or a saved cursor map holding a value outside [0, N)) the
\* start-up does not fail, and every cursor is a valid position afterwards.
C23_MalformedStorageFallsBack ==
  /\ ~renderError
  /\ \A p \in Papers :
       sequencePositions[p] \in 0..(TOTAL_QUESTIONS_PER_SECTION - 1)

\* the two halves of C23, to tell which of them the code breaks
C23_StartupDoesNotFail == ~renderError
C23_CursorsValidOnceStarted ==
  ~renderError =>
    \A p \in Papers :
      sequencePositions[p] \in 0..(TOTAL_QUESTIONS_PER_SECTION - 1)

-----------------------------------------------------------------------------
\* C24: after a graded selectOption, in practice and in the exam alike, the
\* feedback and the selected option stay set until the learner invokes
\* another operation: the flush of effects that follows the graded select,
\* an internal step, leaves both as they are.
C24_FeedbackOutlivesTheFlush ==
  [][ (RunEffects /\ lastSelect = "graded") =>
        UNCHANGED <<feedback, selectedOption>> ]_vars

\* C25: within one exam Session each position is graded at most once: in
\* every reachable state correctCount <= position + 1 <= L, and every
\* ExamRecord has score <= total.
C25_EachPositionGradedOnce ==
  /\ examState # Null =>
       /\ Val(examState).correctCount <= Val(examState).currentIndex + 1
       /\ Val(examState).currentIndex + 1 <= EXAM_LENGTH
  /\ \A i \in 1..Len(highScores) : highScores[i].score <= highScores[i].total

\* C26: each exam Session produces at most one ExamRecord: once the Session
\* is terminal, a further next() or selectOption neither changes the
\* leaderboard nor changes correctCount.
C26_TerminalSessionIsFrozen ==
  [][ ( /\ InExam
        /\ Val(examState).isFinished
        /\ (NextQuestion \/ \E key \in OptionKeys : HandleOptionSelect(key)) ) =>
        /\ highScores' = highScores
        /\ Val(examState').correctCount = Val(examState).correctCount ]_vars

-----------------------------------------------------------------------------
(***************************************************************************)
(* RevisitSpec: practice in which the learner answers, opens and closes    *)
(* the scoreboard and switches topic, and never calls next, reset or       *)
(* startExam nor reloads the page: no cursor ever changes.                 *)
(***************************************************************************)
RevisitNext ==
  \/ \E key \in OptionKeys : HandleOptionSelect(key)
  \/ PracticeRoom
  \/ OpenScoreboard
  \/ CloseScoreboard
  \/ \E paper \in Papers : SelectPaper(paper)
  \/ RunEffects

RevisitSpec == Init /\ [][RevisitNext]_vars

\* C27: in practice, while the cursor of a topic is unchanged, at most one
\* selectOption for that topic is graded, whatever mode switches, scoreboard
\* visits or topic switches happen in between: where no cursor ever changes,
\* the history (one entry per graded select) never holds two entries of the
\* same topic.
C27_OneGradedSelectPerCursor ==
  \A i, j \in 1..Len(history) :
    i # j => history[i].paper # history[j].paper

-----------------------------------------------------------------------------
\* C28: in every reachable state, the state right after a restart that
\* restores the persisted mode included, mode = Exam implies that an exam
\* Session exists.
C28_ExamModeHasASession == appMode = "exam" => examState # Null

-----------------------------------------------------------------------------
\* C29: within one exam Session no question is presented twice: the pool
\* indices loadQuestion passes to the question resolver for the exam indices
\* of positions 0..L-1 are pairwise distinct and all lie in 1..N, and the
\* question shown at a position of a running Session is the one so resolved.
C29_ExamQuestionsAreDistinct ==
  examState # Null =>
    LET exam         == Val(examState)
        Presented(k) == LoadedQuestion(activePaper, exam.questionIndices[k])
    IN  /\ Len(exam.questionIndices) = EXAM_LENGTH
        /\ \A k \in 1..EXAM_LENGTH :
             Presented(k).id[2] \in 1..TOTAL_QUESTIONS_PER_SECTION
        /\ \A k, l \in 1..EXAM_LENGTH :
             k # l => Presented(k).id # Presented(l).id
        /\ (appMode = "exam" /\ ~exam.isFinished /\ ~effectPending) =>
             currentQuestion = Some(Presented(exam.currentIndex + 1))

\* the last question of a Session is shown, and the answer given to the
\* question before it heads the history
C29_Witness ==
  /\ appMode = "exam"
  /\ examState # Null
  /\ ~Val(examState).isFinished
  /\ ~effectPending
  /\ Val(examState).currentIndex = EXAM_LENGTH - 1
  /\ currentQuestion =
       Some(LoadedQuestion(activePaper,
                           Val(examState).questionIndices[EXAM_LENGTH]))
  /\ history # <<>>
  /\ history[1].questionId =
       LoadedQuestion(activePaper,
                      Val(examState).questionIndices[EXAM_LENGTH - 1]).id
  /\ run # Null
  /\ Val(run).step = 2 * (EXAM_LENGTH - 1)

-----------------------------------------------------------------------------
\* the sequences of swap indices of one shuffle of n elements: j_i in [0, i]
\* for i = n-1 down to 1
SwapIndices(n) == { r \in [1..(n - 1) -> 0..(n - 1)] : \A i \in 1..(n - 1) : r[i] <= i }

\* the permutations of 1..n
PermutationsOf(n) ==
  { s \in [1..n -> 1..n] : \A a, b \in 1..n : a # b => s[a] # s[b] }

RECURSIVE Factorial(_)
Factorial(n) == IF n <= 1 THEN 1 ELSE n * Factorial(n - 1)

\* C30 (ShuffleSpec): for the length n at hand, the shuffle of 1..n maps the
\* sequences of swap indices one-to-one onto the permutations of 1..n: every
\* permutation is produced, by exactly one sequence (as many results as
\* sequences), and there are n! sequences.
C30_OneDrawSequencePerPermutation ==
  LET draws == SwapIndices(shLen)
      produced == { generateSecureSequence(shLen, r) : r \in draws }
  IN  /\ produced = PermutationsOf(shLen)
      /\ Cardinality(produced) = Cardinality(draws)
      /\ Cardinality(draws) = Factorial(shLen)

\* the longest sequence has been shuffled with a sequence of swap indices,
\* and came out reversed
C30_Witness ==
  /\ shResult # Null
  /\ shLen = MaxShuffleLen
  /\ \A i \in 1..(shLen - 1) : shRand[i] <= i
  /\ \A k \in 1..shLen : Val(shResult)[k] = shLen + 1 - k
=============================================================================
